---- MODULE Spec2Model ----
(***************************************************************************)
(* The CRDT synchronization engine of Actual (packages/loot-core,          *)
(* server/sync/index.ts as excerpted in ARCHITECTURE.md):                   *)
(*   - the logical clock (Timestamp.send / Timestamp.recv),                *)
(*   - the merkle trie over message timestamps,                            *)
(*   - applyMessages, the serialized, transactional batch apply,           *)
(*   - _fullSync, the multi-round exchange with the sync peer.             *)
(* Time is counted in ticks; a trie bucket is one tick wide.               *)
(***************************************************************************)
EXTENDS Integers, Sequences, FiniteSets, TLC

VARIABLES
    wall,           \* Date.now(), in ticks
    syncingMode,    \* [replica -> "enabled" | "disabled" | "offline" | "import"]
    clock,          \* [replica -> [timestamp, merkle]]: the in-memory clock (getClock())
    rows,           \* [replica -> [cell -> value]]: the live tables
    messagesCrdt,   \* [replica -> set of messages]: table messages_crdt
    messagesClock,  \* [replica -> [timestamp, merkle]]: table messages_clock, row id 1
    prefs,          \* [replica -> [loaded, groupId, lastSyncedTimestamp]]: prefs.getPrefs()
    applyQueue,     \* [replica -> Seq(call)]: calls of applyMessages held back by sequential()
    applyRun,       \* [replica -> the running call of applyMessages and its locals]
    sync,           \* [replica -> the running _fullSync and its locals]
    lastApply,      \* history: [replica -> the last finished call of applyMessages]
    applied,        \* history: [replica -> messages of every committed call]
    issued,         \* history: [replica -> Seq(timestamp)] returned by Timestamp.send()
    syncLog,        \* history: [replica -> what the running/last fullSync did]
    tries,          \* two tries built by inserts, and the timestamps inserted in each
    budget,         \* categories, the goal state of each month, and the last reset
    view,           \* the category groups of the budget page, before and after sorting
    ui              \* the mounted hooks of the budget page: bindings, running requests

vars == <<wall, syncingMode, clock, rows, messagesCrdt, messagesClock, prefs,
          applyQueue, applyRun, sync, lastApply, applied, issued, syncLog, tries,
          budget, view, ui>>

(***************************************************************************)
(* Bounds of the model                                                     *)
(***************************************************************************)
MaxWall == 3        \* the wall clock ranges over 0..MaxWall
MaxCounter == 2     \* the timestamp counter ranges over 0..MaxCounter (u16 in the program)
MaxIssued == 5      \* Timestamp.send() calls recorded per replica
MaxMsgs == 2        \* size of the universe of peer messages
MaxCalls == 1       \* calls of applyMessages the environment has outstanding
MaxEdits == 1       \* local edits (sendMessages) per replica
MaxEditAttempt == 1 \* under the peer stub, the user edits during attempts 0..MaxEditAttempt
MaxDiverge == 1     \* attempts of a fullSync in which the short-lived peer stub diverges
MaxCats == 2        \* categories of a category group
MaxTrieTs == 4      \* timestamps inserted into the tries that are built on their own

\* program constants (time in ticks of 150 s)
DefaultSinceWindow == 2     \* 5 * 60 * 1000 ms
SameDiffAttempts == 10      \* count >= 10 && diffTime === prevDiffTime
MaxAttempts == 100          \* count >= 100

Replicas == {"A", "B"}
Null == "null"
NullTime == 0 - 1   \* `null` where the program holds a number of milliseconds

Max(a, b) == IF a >= b THEN a ELSE b
Min(a, b) == IF a <= b THEN a ELSE b

(***************************************************************************)
(* Timestamp                                                               *)
(***************************************************************************)
Timestamp(millis, counter, node) ==
    [millis |-> millis, counter |-> counter, node |-> node]

NodeRank(node) ==
    CASE node = "0" -> 0 [] node = "A" -> 1 [] node = "B" -> 2 [] node = "C" -> 3
      [] node = "none" -> 0

\* a string without the node
TsStringNoNode(ts) == <<ts.millis, ts.counter, 0>>

\* timestamp.toString(): fixed-width fields millis-counter-node, so that strings
\* compare as the field triples do
TsString(ts) == <<ts.millis, ts.counter, NodeRank(ts.node)>>

\* s < t on such strings
StrLess(s, t) ==
    \E i \in 1..3 : s[i] < t[i] /\ \A j \in 1..(i - 1) : s[j] = t[j]

TsLess(a, b) == StrLess(TsString(a), TsString(b))

NoTimestamp == Timestamp(NullTime, 0, "none")

(***************************************************************************)
(* LogicalClock                                                            *)
(***************************************************************************)
\* a clock that follows the wall clock instead of max(last, wall)
ClockNowUnclamped(last, phys) ==
    LET cNew == IF phys = last.millis THEN last.counter + 1 ELSE 0
    IN  IF cNew > MaxCounter
        THEN Timestamp(phys + 1, 0, last.node)
        ELSE Timestamp(phys, cNew, last.node)

\* now(): max(lastIssued.millis, wall); counter + 1 if millis is unchanged, else
\* 0; a counter overflow escalates millis by 1
ClockNow(last, phys) ==
    LET lNew == Max(last.millis, phys)
        cNew == IF lNew = last.millis THEN last.counter + 1 ELSE 0
    IN  IF cNew > MaxCounter
        THEN Timestamp(lNew + 1, 0, last.node)
        ELSE Timestamp(lNew, cNew, last.node)

\* receive(remote): lastIssued becomes strictly greater than remote if remote is
\* ahead; the local replica id is kept
ClockReceive(last, remote) ==
    IF TsLess(last, remote)
    THEN IF remote.counter + 1 > MaxCounter
         THEN Timestamp(remote.millis + 1, 0, last.node)
         ELSE Timestamp(remote.millis, remote.counter + 1, last.node)
    ELSE last

(***************************************************************************)
(* MerkleTrie: nodes keyed by the base-3 digits of the tick of a timestamp  *)
(***************************************************************************)
KeyBase == 3
KeyDigits == 3

RECURSIVE Pow(_, _)
Pow(b, n) == IF n = 0 THEN 1 ELSE b * Pow(b, n - 1)

\* the key of a tick: its KeyDigits digits, the most significant first
RECURSIVE KeyOf(_, _)
KeyOf(millis, n) ==
    IF n = 0 THEN <<>>
    ELSE Append(KeyOf(millis \div KeyBase, n - 1), millis % KeyBase)

EmptyTrie == [hash |-> {}, children |-> <<>>]

Child(node, k) == IF k \in DOMAIN node.children THEN node.children[k] ELSE EmptyTrie

\* a node hash that keeps only the timestamp inserted last
CombineLast(hash, h) == {h}

\* the combined hash of a node: a collision-free function of the hashes of the
\* timestamps inserted under it
Combine(hash, h) == hash \cup {h}

\* insert along the key, rebuilding the nodes on the path
RECURSIVE InsertKey(_, _, _)
InsertKey(node, key, h) ==
    [hash |-> Combine(node.hash, h),
     children |->
        IF key = <<>> THEN node.children
        ELSE [k \in DOMAIN node.children \cup {Head(key)} |->
                 IF k = Head(key)
                 THEN InsertKey(Child(node, k), Tail(key), h)
                 ELSE node.children[k]]]

MerkleInsert(trie, ts) == InsertKey(trie, KeyOf(ts.millis, KeyDigits), TsString(ts))

RECURSIVE MerkleInsertAll(_, _)
MerkleInsertAll(trie, tss) ==
    IF tss = {} THEN trie
    ELSE LET ts == CHOOSE t \in tss : TRUE
         IN  MerkleInsertAll(MerkleInsert(trie, ts), tss \ {ts})

\* the children a node keeps when it is pruned: the latest ones
PruneKeep == 2

\* the latest PruneKeep keys of a node
KeptKeys(node) ==
    {k \in DOMAIN node.children :
        Cardinality({j \in DOMAIN node.children : j > k}) < PruneKeep}

\* a prune that recomputes the hash of a node from the children it keeps
RECURSIVE MerklePruneRehash(_)
MerklePruneRehash(trie) ==
    IF DOMAIN trie.children = {} THEN trie
    ELSE LET kept == [k \in KeptKeys(trie) |-> MerklePruneRehash(trie.children[k])]
         IN  [hash |-> UNION {kept[k].hash : k \in DOMAIN kept}, children |-> kept]

\* prune: every node keeps its hash and its latest children; the older children
\* are dropped, which leaves the node as the summary of what was under them
RECURSIVE MerklePrune(_)
MerklePrune(trie) ==
    [hash |-> trie.hash,
     children |-> [k \in KeptKeys(trie) |-> MerklePrune(trie.children[k])]]

\* the node of the bucket of tick b
RECURSIVE NodeAt(_, _)
NodeAt(node, key) ==
    IF key = <<>> THEN node ELSE NodeAt(Child(node, Head(key)), Tail(key))

Bucket(trie, b) == NodeAt(trie, KeyOf(b, KeyDigits))

\* a hash that only counts the timestamps under a node
HashOfCount(node) == {Cardinality(node.hash)}

HashOf(node) == node.hash

MerkleHash(trie) == HashOf(trie)

\* a descent into the last child whose hashes differ
RECURSIVE DiffFromLast(_, _, _, _)
DiffFromLast(a, b, depth, prefix) ==
    IF depth = KeyDigits THEN prefix
    ELSE LET keys == DOMAIN a.children \cup DOMAIN b.children
             differing == {k \in keys : HashOf(Child(a, k)) # HashOf(Child(b, k))}
         IN  IF differing = {} THEN prefix * Pow(KeyBase, KeyDigits - depth)
             ELSE LET k == CHOOSE x \in differing : \A y \in differing : x >= y
                  IN  DiffFromLast(Child(a, k), Child(b, k), depth + 1,
                                   prefix * KeyBase + k)

\* the descent of diff: at every level into the first child whose hashes differ;
\* the result is the lower time bound of the node the descent ends in
RECURSIVE DiffFrom(_, _, _, _)
DiffFrom(a, b, depth, prefix) ==
    IF depth = KeyDigits THEN prefix
    ELSE LET keys == DOMAIN a.children \cup DOMAIN b.children
             differing == {k \in keys : HashOf(Child(a, k)) # HashOf(Child(b, k))}
         IN  IF differing = {} THEN prefix * Pow(KeyBase, KeyDigits - depth)
             ELSE LET k == CHOOSE x \in differing : \A y \in differing : x <= y
                  IN  DiffFrom(Child(a, k), Child(b, k), depth + 1,
                               prefix * KeyBase + k)

\* a diff that compares nothing
MerkleDiffNever(a, b) == NullTime

\* the lower time bound of the earliest bucket whose hashes differ, or null
MerkleDiff(a, b) ==
    IF MerkleHash(a) = MerkleHash(b) THEN NullTime ELSE DiffFrom(a, b, 0, 0)

(***************************************************************************)
(* Messages and storage                                                    *)
(***************************************************************************)
Message(dataset, row, column, timestamp, value) ==
    [dataset |-> dataset, row |-> row, column |-> column,
     timestamp |-> timestamp, value |-> value, old |-> FALSE]

CellOf(m) == <<m.dataset, m.row, m.column>>

Cells == {<<"transactions", "tx1", "amount">>, <<"transactions", "tx2", "amount">>}

\* the row of messages_crdt written for a message
CrdtRow(m) ==
    [timestamp |-> m.timestamp, dataset |-> m.dataset, row |-> m.row,
     column |-> m.column, value |-> m.value]

EmptyTables == [c \in Cells |-> Null]

\* messages other replicas have produced, in no particular order
PeerMessageList ==
    << Message("transactions", "tx1", "amount", Timestamp(2, 0, "B"), "200"),
       Message("transactions", "tx1", "amount", Timestamp(1, 0, "C"), "100"),
       Message("transactions", "tx2", "amount", Timestamp(1, 0, "B"), "50"),
       Message("transactions", "tx1", "amount", Timestamp(1, 1, "C"), "300"),
       Message("transactions", "tx2", "amount", Timestamp(3, 0, "C"), "75") >>

PeerMessages ==
    {PeerMessageList[i] : i \in 1..Min(MaxMsgs, Len(PeerMessageList))}

\* the arrays a caller can hand to applyMessages: distinct messages in any order
Batches ==
    {s \in UNION {[1..n -> PeerMessages] : n \in 1..MaxMsgs} :
        \A i, j \in DOMAIN s : i # j => s[i] # s[j]}

Range(s) == {s[i] : i \in DOMAIN s}

RemoveAt(s, i) == SubSeq(s, 1, i - 1) \o SubSeq(s, i + 1, Len(s))

\* a mode test that takes every file not being imported for a synced one
CheckSyncingModeLax(r, mode) == mode = "enabled" /\ syncingMode[r] # "import"

\* checkSyncingMode(mode)
CheckSyncingMode(r, mode) == syncingMode[r] = mode

(***************************************************************************)
(* applyMessages                                                           *)
(***************************************************************************)
\* a comparison that keeps the messages already applied and marks them as old
RECURSIVE CompareMessagesKeepingSeen(_, _)
CompareMessagesKeepingSeen(crdt, messages) ==
    IF messages = <<>> THEN <<>>
    ELSE LET m == Head(messages)
             rest == CompareMessagesKeepingSeen(crdt, Tail(messages))
             notBefore == {e \in crdt : /\ CellOf(e) = CellOf(m)
                                        /\ ~TsLess(e.timestamp, m.timestamp)}
         IN  IF notBefore # {} THEN <<[m EXCEPT !.old = TRUE]>> \o rest
             ELSE <<m>> \o rest

\* compareMessages: drops the messages already applied and marks as old those
\* for whose cell messages_crdt holds a later message
RECURSIVE CompareMessages(_, _)
CompareMessages(crdt, messages) ==
    IF messages = <<>> THEN <<>>
    ELSE LET m == Head(messages)
             rest == CompareMessages(crdt, Tail(messages))
             same == {e \in crdt : /\ CellOf(e) = CellOf(m)
                                   /\ e.timestamp = m.timestamp}
             later == {e \in crdt : /\ CellOf(e) = CellOf(m)
                                    /\ TsLess(m.timestamp, e.timestamp)}
         IN  IF same # {} THEN rest
             ELSE IF later # {} THEN <<[m EXCEPT !.old = TRUE]>> \o rest
             ELSE <<m>> \o rest

\* applyMessages that never consults messages_crdt
ComparedBatchUnchecked(mode, crdt, messages) == messages

\* lines 97-103: only in mode enabled are the messages compared with the crdt
ComparedBatch(mode, crdt, messages) ==
    IF mode = "enabled" THEN CompareMessages(crdt, messages) ELSE messages

\* insertion of m into a list sorted by timestamp string, after its equals
RECURSIVE InsertSorted(_, _)
InsertSorted(sorted, m) ==
    IF sorted = <<>> THEN <<m>>
    ELSE IF StrLess(TsString(m.timestamp), TsString(Head(sorted).timestamp))
         THEN <<m>> \o sorted
         ELSE <<Head(sorted)>> \o InsertSorted(Tail(sorted), m)

RECURSIVE SortedUpTo(_, _)
SortedUpTo(messages, k) ==
    IF k = 0 THEN <<>> ELSE InsertSorted(SortedUpTo(messages, k - 1), messages[k])

\* applyMessages that keeps the arrival order
SortMessagesArrival(messages) == messages

\* lines 105-114: [...messages].sort by timestamp.toString() (a stable sort)
SortMessages(messages) == SortedUpTo(messages, Len(messages))

\* lines 128-144: fetchData(), the rows the messages touch as they are before
FetchData(tables, messages) ==
    {<<m.dataset, m.row>> : m \in {x \in Range(messages) : x.dataset # "prefs"}}
        \cap {<<c[1], c[2]>> : c \in {d \in Cells : tables[d] # Null}}

\* apply(msg, prev): storage set(dataset, row, column, value); prev tells the
\* storage whether the row is updated or inserted
StorageApply(tables, m, prev) ==
    IF m.dataset = "prefs" THEN tables
    ELSE [tables EXCEPT ![CellOf(m)] = m.value]

\* a loop body that applies old messages as well
ApplyOneIgnoringOld(st, m, enabled) ==
    LET tables1 == StorageApply(st.tables, m,
                       <<m.dataset, m.row>> \in (st.oldData \cup st.added))
        added1 == IF m.dataset # "prefs"
                  THEN st.added \cup {<<m.dataset, m.row>>} ELSE st.added
        unique == \A e \in st.crdt : e.timestamp # m.timestamp
    IN  IF ~enabled
        THEN [st EXCEPT !.tables = tables1, !.added = added1]
        ELSE IF ~unique
        THEN [st EXCEPT !.tables = tables1, !.added = added1,
                        !.threw = "SQLITE_CONSTRAINT"]
        ELSE [st EXCEPT !.tables = tables1, !.added = added1,
                        !.crdt = st.crdt \cup {CrdtRow(m)},
                        !.currentMerkle = MerkleInsert(st.currentMerkle, m.timestamp)]

\* lines 173-203: one pass of the loop inside db.transaction. messages_crdt.timestamp
\* is UNIQUE (schema), so the INSERT of a timestamp already there throws
ApplyOne(st, m, enabled) ==
    LET tables1 == IF ~m.old
                   THEN StorageApply(st.tables, m,
                            <<m.dataset, m.row>> \in (st.oldData \cup st.added))
                   ELSE st.tables
        added1 == IF ~m.old /\ m.dataset # "prefs"
                  THEN st.added \cup {<<m.dataset, m.row>>} ELSE st.added
        unique == \A e \in st.crdt : e.timestamp # m.timestamp
    IN  IF ~enabled
        THEN [st EXCEPT !.tables = tables1, !.added = added1]
        ELSE IF ~unique
        THEN [st EXCEPT !.tables = tables1, !.added = added1,
                        !.threw = "SQLITE_CONSTRAINT"]
        ELSE [st EXCEPT !.tables = tables1, !.added = added1,
                        !.crdt = st.crdt \cup {CrdtRow(m)},
                        !.currentMerkle = MerkleInsert(st.currentMerkle, m.timestamp)]

\* the loop over messages[1..k]; the storage layer throws in pass failAt
RECURSIVE ApplyLoop(_, _, _, _, _)
ApplyLoop(messages, k, st, enabled, failAt) ==
    IF k = 0 THEN st
    ELSE LET before == ApplyLoop(messages, k - 1, st, enabled, failAt)
         IN  IF before.threw # Null THEN before
             ELSE IF k = failAt THEN [before EXCEPT !.threw = "SQLITE_ERROR"]
             ELSE ApplyOne(before, messages[k], enabled)

\* lines 170-217: the function run by db.transaction: the loop, then prune and the
\* INSERT OR REPLACE of the clock row (failAt = Len + 1: that query throws)
TransactionBody(messages, st, enabled, clockTs, failAt) ==
    LET looped == ApplyLoop(messages, Len(messages), st, enabled, failAt)
    IN  IF looped.threw # Null \/ ~enabled THEN looped
        ELSE LET pruned == MerklePrune(looped.currentMerkle)
             IN  IF failAt = Len(messages) + 1
                 THEN [looped EXCEPT !.currentMerkle = pruned, !.threw = "SQLITE_ERROR"]
                 ELSE [looped EXCEPT !.currentMerkle = pruned,
                                     !.clockRow = [timestamp |-> clockTs, merkle |-> pruned]]

\* a storage layer that keeps what was written before the exception
DbTransactionNoRollback(before, after) ==
    [tables |-> after.tables, crdt |-> after.crdt, clockRow |-> after.clockRow]

\* lines 163-170: db.transaction commits everything, or on an exception nothing
DbTransaction(before, after) ==
    IF after.threw # Null
    THEN [tables |-> before.tables, crdt |-> before.crdt, clockRow |-> before.clockRow]
    ELSE [tables |-> after.tables, crdt |-> after.crdt, clockRow |-> after.clockRow]

\* a clock whose merkle is assigned while the messages are processed
ClockMerkleInPlace(clockMerkle, currentMerkle, committed, enabled) ==
    IF enabled THEN currentMerkle ELSE clockMerkle

\* lines 148-157: the clock is not mutated while the messages are processed; the
\* merkle built in currentMerkle is assigned only if the transaction succeeds
ClockMerkleAfter(clockMerkle, currentMerkle, committed, enabled) ==
    IF enabled /\ committed THEN currentMerkle ELSE clockMerkle

\* an apply that leaves the clock where it is
ReceiveNone(ts, messages, k) == ts

\* receive() for every applied message whose timestamp exceeds the local clock
RECURSIVE ReceiveAll(_, _, _)
ReceiveAll(ts, messages, k) ==
    IF k = 0 THEN ts
    ELSE ClockReceive(ReceiveAll(ts, messages, k - 1), messages[k].timestamp)

(***************************************************************************)
(* State                                                                   *)
(***************************************************************************)
NoApply ==
    [batch |-> <<>>, origin |-> Null, kind |-> "none", error |-> Null,
     failAt |-> 0, repeat |-> FALSE, pre |-> Null, messages |-> <<>>]

NoTries == [a |-> EmptyTrie, b |-> EmptyTrie, inA |-> {}, inB |-> {}]

NoResponse == [messages |-> <<>>, merkle |-> EmptyTrie]

IdleSync ==
    [pc |-> "idle", since |-> NoTimestamp, count |-> 0, prevDiffTime |-> NullTime,
     currentTime |-> NoTimestamp, groupId |-> Null, sent |-> {}, res |-> NoResponse,
     localTimeChanged |-> FALSE, received |-> {}]

\* history of a fullSync that never began: the snapshot of no replica
NoSnapshot ==
    [snap |-> [rows |-> EmptyTables, crdt |-> {},
               clock |-> [timestamp |-> NoTimestamp, merkle |-> EmptyTrie],
               clockRow |-> [timestamp |-> NoTimestamp, merkle |-> EmptyTrie]],
     since |-> NoTimestamp, edits |-> 0, calls |-> 0]

NoSyncLog ==
    [state |-> "Idle", error |-> Null, result |-> {}, attempt |-> 0, sameRun |-> 0,
     pre |-> NoSnapshot, roundPre |-> NoSnapshot,
     startTime |-> NoTimestamp, roundTime |-> NoTimestamp,
     appended |-> {}, sentLater |-> {}]

\* the database as it is loaded: empty tables, a clock at Timestamp(0, 0, node)
\* no category and no month
NoBudget ==
    [categories |-> <<>>, budgets |-> <<>>,
     last |-> [month |-> Null, category |-> Null, type |-> Null, message |-> Null,
               categories |-> <<>>, budgets |-> <<>>]]

\* no category group
NoView ==
    [categoryGroups |-> <<>>, showHiddenCategories |-> FALSE, sorted |-> <<>>,
     done |-> FALSE]

\* no component of the budget page is mounted
NoUi == [hook |-> "none"]

\* the sync engine of a file that was just created
InitEngine ==
    /\ wall = 0
    /\ clock = [r \in Replicas |-> [timestamp |-> Timestamp(0, 0, r), merkle |-> EmptyTrie]]
    /\ rows = [r \in Replicas |-> EmptyTables]
    /\ messagesCrdt = [r \in Replicas |-> {}]
    /\ messagesClock = [r \in Replicas |->
                           [timestamp |-> Timestamp(0, 0, r), merkle |-> EmptyTrie]]
    /\ prefs = [r \in Replicas |->
                   [loaded |-> TRUE, groupId |-> "g1", lastSyncedTimestamp |-> NoTimestamp]]
    /\ applyQueue = [r \in Replicas |-> <<>>]
    /\ applyRun = [r \in Replicas |-> <<>>]
    /\ sync = [r \in Replicas |-> IdleSync]
    /\ lastApply = [r \in Replicas |-> NoApply]
    /\ applied = [r \in Replicas |-> {}]
    /\ issued = [r \in Replicas |-> <<>>]
    /\ syncLog = [r \in Replicas |-> NoSyncLog]

InitFile ==
    /\ InitEngine
    /\ tries = NoTries
    /\ budget = NoBudget
    /\ view = NoView
    /\ ui = NoUi

Snapshot(r) ==
    [rows |-> rows[r], crdt |-> messagesCrdt[r], clock |-> clock[r],
     clockRow |-> messagesClock[r]]

(***************************************************************************)
(* applyMessages as a process                                              *)
(***************************************************************************)
\* a caller invokes applyMessages(batch); sequential() queues the call
ApplyMessagesCall(r, batch, origin) ==
    applyQueue' = [applyQueue EXCEPT
                      ![r] = Append(@, [batch |-> batch, origin |-> origin])]

\* the body of applyMessages entered whether or not a call is running
ApplyStartUnserialized(r) ==
    /\ applyQueue[r] # <<>>
    /\ ~CheckSyncingMode(r, "import")
    /\ LET call == Head(applyQueue[r])
       IN  applyRun' = [applyRun EXCEPT ![r] = Append(@,
               [pc |-> "compared", batch |-> call.batch, origin |-> call.origin,
                messages |-> ComparedBatch(syncingMode[r], messagesCrdt[r], call.batch),
                oldData |-> {}, pre |-> Snapshot(r)])]
    /\ applyQueue' = [applyQueue EXCEPT ![r] = Tail(@)]
    /\ UNCHANGED <<wall, syncingMode, clock, rows, messagesCrdt, messagesClock, prefs,
                   sync, lastApply, applied, issued, syncLog, tries,
                   budget, view, ui>>

\* lines 93-103: sequential() lets the next call in once no call is running; the
\* body runs up to `await compareMessages(messages)`
ApplyStart(r) ==
    /\ applyQueue[r] # <<>>
    /\ applyRun[r] = <<>>
    /\ ~CheckSyncingMode(r, "import")
    /\ LET call == Head(applyQueue[r])
       IN  applyRun' = [applyRun EXCEPT ![r] = Append(@,
               [pc |-> "compared", batch |-> call.batch, origin |-> call.origin,
                messages |-> ComparedBatch(syncingMode[r], messagesCrdt[r], call.batch),
                oldData |-> {}, pre |-> Snapshot(r)])]
    /\ applyQueue' = [applyQueue EXCEPT ![r] = Tail(@)]
    /\ UNCHANGED <<wall, syncingMode, clock, rows, messagesCrdt, messagesClock, prefs,
                   sync, lastApply, applied, issued, syncLog, tries,
                   budget, view, ui>>

\* lines 105-144: the sort, idsPerTable and `await fetchData()`
ApplyFetch(r, i) ==
    /\ i \in DOMAIN applyRun[r]
    /\ applyRun[r][i].pc = "compared"
    /\ LET sorted == SortMessages(applyRun[r][i].messages)
       IN  applyRun' = [applyRun EXCEPT ![r][i] =
               [@ EXCEPT !.pc = "fetched", !.messages = sorted,
                         !.oldData = FetchData(rows[r], sorted)]]
    /\ UNCHANGED <<wall, syncingMode, clock, rows, messagesCrdt, messagesClock, prefs,
                   applyQueue, sync, lastApply, applied, issued, syncLog, tries,
                   budget, view, ui>>

\* lines 146-217 and the return: the clock snapshot, db.transaction, then the
\* in-memory clock; an exception of the storage layer rejects the call
ApplyTransaction(r, i, failAt) ==
    /\ i \in DOMAIN applyRun[r]
    /\ applyRun[r][i].pc = "fetched"
    /\ failAt \in 0..(Len(applyRun[r][i].messages) + 1)
    /\ LET run == applyRun[r][i]
           enabled == CheckSyncingMode(r, "enabled")
           before == [tables |-> rows[r], crdt |-> messagesCrdt[r],
                      clockRow |-> messagesClock[r]]
           st0 == [tables |-> rows[r], crdt |-> messagesCrdt[r],
                   clockRow |-> messagesClock[r], oldData |-> run.oldData,
                   added |-> {}, currentMerkle |-> clock[r].merkle, threw |-> Null]
           after == TransactionBody(run.messages, st0, enabled,
                                    clock[r].timestamp, failAt)
           db == DbTransaction(before, after)
           committed == after.threw = Null
       IN  /\ rows' = [rows EXCEPT ![r] = db.tables]
           /\ messagesCrdt' = [messagesCrdt EXCEPT ![r] = db.crdt]
           /\ messagesClock' = [messagesClock EXCEPT ![r] = db.clockRow]
           /\ clock' = [clock EXCEPT ![r] =
                  [timestamp |-> IF committed /\ enabled
                                 THEN ReceiveAll(@.timestamp, run.messages,
                                                 Len(run.messages))
                                 ELSE @.timestamp,
                   merkle |-> ClockMerkleAfter(@.merkle, after.currentMerkle,
                                               committed, enabled)]]
           /\ lastApply' = [lastApply EXCEPT ![r] =
                  [batch |-> run.batch, origin |-> run.origin,
                   kind |-> IF committed THEN "committed" ELSE "failed",
                   error |-> after.threw, failAt |-> failAt,
                   repeat |-> (@.kind = "committed" /\ @.batch = run.batch),
                   pre |-> run.pre, messages |-> run.messages]]
           /\ applied' = [applied EXCEPT ![r] =
                  IF committed THEN @ \cup {CrdtRow(m) : m \in Range(run.batch)} ELSE @]
           /\ IF run.origin = "receiveMessages" /\ sync[r].pc = "applying"
              THEN IF committed
                   THEN /\ sync' = [sync EXCEPT ![r] =
                               [@ EXCEPT !.pc = "received",
                                         !.received = @ \cup {CrdtRow(m) :
                                                         m \in Range(run.messages)}]]
                        /\ UNCHANGED syncLog
                   ELSE /\ sync' = [sync EXCEPT ![r] = IdleSync]
                        /\ syncLog' = [syncLog EXCEPT ![r] =
                               [@ EXCEPT !.state = "Error", !.error = after.threw]]
              ELSE /\ UNCHANGED sync
                   /\ syncLog' = [syncLog EXCEPT ![r] =
                          [@ EXCEPT !.appended =
                              IF committed /\ sync[r].pc = "waiting"
                              THEN @ \cup (db.crdt \ messagesCrdt[r]) ELSE @]]
    /\ applyRun' = [applyRun EXCEPT ![r] = RemoveAt(@, i)]
    /\ UNCHANGED <<wall, syncingMode, prefs, applyQueue, issued, tries,
                   budget, view, ui>>

(***************************************************************************)
(* SpecApply: one replica in mode enabled is handed batches of peer        *)
(* messages in any order, any split and any repetition, and its storage    *)
(* layer may throw at any query of the transaction.                        *)
(***************************************************************************)
InitApply ==
    /\ InitFile
    /\ syncingMode = [r \in Replicas |-> "enabled"]

\* receiveMessages hands a batch received from the peer to applyMessages
Deliver(r, batch) ==
    /\ Len(applyQueue[r]) + Len(applyRun[r]) < MaxCalls
    /\ ApplyMessagesCall(r, batch, "receiveMessages")
    /\ UNCHANGED <<wall, syncingMode, clock, rows, messagesCrdt, messagesClock, prefs,
                   applyRun, sync, lastApply, applied, issued, syncLog, tries,
                   budget, view, ui>>

NextApply ==
    \/ \E b \in Batches : Deliver("A", b)
    \/ ApplyStart("A")
    \/ \E i \in DOMAIN applyRun["A"] : ApplyFetch("A", i)
    \/ \E i \in DOMAIN applyRun["A"], f \in 0..(MaxMsgs + 1) : ApplyTransaction("A", i, f)

SpecApply == InitApply /\ [][NextApply]_vars

\* C1: when the storage layer throws during applyMessages the batch is rolled
\* back: the tables, messages_crdt, the in-memory clock and the persisted clock row
\* are what they were before the call, and the call is rejected with the error the
\* storage layer threw.
ApplyFailureRollsBack ==
    \A r \in Replicas :
        lastApply[r].kind = "failed" =>
            /\ rows[r] = lastApply[r].pre.rows
            /\ messagesCrdt[r] = lastApply[r].pre.crdt
            /\ clock[r] = lastApply[r].pre.clock
            /\ messagesClock[r] = lastApply[r].pre.clockRow
            /\ lastApply[r].error \in {"SQLITE_ERROR", "SQLITE_CONSTRAINT"}

\* a call rejected after the transaction had already applied a message
ApplyFailureWitness ==
    /\ lastApply["A"].kind = "failed"
    /\ lastApply["A"].failAt >= 2
    /\ lastApply["A"].error = "SQLITE_ERROR"

\* C2: a batch applied a second time, right after it was applied and committed, is
\* not rejected by the UNIQUE timestamps of messages_crdt and leaves every row
\* value and the merkle hash as they were after the first application.
ApplyIdempotent ==
    \A r \in Replicas :
        lastApply[r].repeat =>
            /\ rows[r] = lastApply[r].pre.rows
            /\ MerkleHash(clock[r].merkle) = MerkleHash(lastApply[r].pre.clock.merkle)
            /\ lastApply[r].error # "SQLITE_CONSTRAINT"

\* a batch of two messages committed twice in a row
ApplyIdempotentWitness ==
    /\ lastApply["A"].repeat
    /\ lastApply["A"].kind = "committed"
    /\ Len(lastApply["A"].batch) = 2
    /\ clock["A"].merkle # EmptyTrie

\* the result of handing the messages of `set` to a freshly loaded file as one
\* batch, computed as applyMessages computes it
RowAsMessage(e) == Message(e.dataset, e.row, e.column, e.timestamp, e.value)

AppliedInOneBatch(set) ==
    LET n == Cardinality(set)
        batch == CHOOSE s \in [1..n -> {RowAsMessage(e) : e \in set}] :
                     Range(s) = {RowAsMessage(e) : e \in set}
        messages == SortMessages(ComparedBatch("enabled", {}, batch))
        st0 == [tables |-> EmptyTables, crdt |-> {},
                clockRow |-> [timestamp |-> NoTimestamp, merkle |-> EmptyTrie],
                oldData |-> {}, added |-> {}, currentMerkle |-> EmptyTrie,
                threw |-> Null]
    IN  TransactionBody(messages, st0, TRUE, NoTimestamp, 0)

\* C3: however the messages applied so far were delivered (any order inside a
\* batch, one batch or several, repeated or not), the field values and the merkle
\* hash are those obtained by applying the same set of messages as one batch.
ApplyCommutative ==
    \A r \in Replicas :
        /\ rows[r] = AppliedInOneBatch(applied[r]).tables
        /\ MerkleHash(clock[r].merkle) =
               MerkleHash(AppliedInOneBatch(applied[r]).currentMerkle)

\* every message has been applied, the last call with a batch of several messages
\* handed over in descending timestamp order
ApplyCommutativeWitness ==
    /\ applied["A"] = {CrdtRow(m) : m \in PeerMessages}
    /\ lastApply["A"].kind = "committed"
    /\ Len(lastApply["A"].batch) >= 2
    /\ TsLess(lastApply["A"].batch[2].timestamp, lastApply["A"].batch[1].timestamp)

\* the value carried by the message of greatest timestamp applied to the cell
LwwValue(set, cell) ==
    LET onCell == {e \in set : <<e.dataset, e.row, e.column>> = cell}
    IN  IF onCell = {} THEN Null
        ELSE (CHOOSE e \in onCell :
                 \A o \in onCell : o = e \/ TsLess(o.timestamp, e.timestamp)).value

\* C4: every cell holds the value of the message with the greatest timestamp among
\* all messages ever applied to it, also when a message with a smaller timestamp
\* arrives in a later batch.
LastWriterWins ==
    \A r \in Replicas : \A c \in Cells : rows[r][c] = LwwValue(applied[r], c)

\* a message with a smaller timestamp committed in a later batch than the message
\* that wrote the cell, which keeps its value
LastWriterWinsWitness ==
    /\ lastApply["A"].kind = "committed"
    /\ Len(lastApply["A"].batch) = 1
    /\ ~lastApply["A"].repeat
    /\ LET m == lastApply["A"].batch[1]
       IN  /\ lastApply["A"].pre.rows[CellOf(m)] # Null
           /\ rows["A"][CellOf(m)] = lastApply["A"].pre.rows[CellOf(m)]
           /\ rows["A"][CellOf(m)] # m.value
           /\ CrdtRow(m) \in messagesCrdt["A"]
           /\ CrdtRow(m) \notin lastApply["A"].pre.crdt

\* the messages of the last batch whose timestamp the log already held
SeenBefore(r) ==
    {m \in Range(lastApply[r].batch) :
        \E e \in lastApply[r].pre.crdt : e.timestamp = m.timestamp}

\* the messages of the last batch not in the log, for whose cell the log held a
\* later message
OldInBatch(r) ==
    {m \in Range(lastApply[r].batch) \ SeenBefore(r) :
        \E e \in lastApply[r].pre.crdt :
            CellOf(e) = CellOf(m) /\ TsLess(m.timestamp, e.timestamp)}

\* the timestamps the transaction of the last call ran apply or INSERT for
ProcessedTimestamps(r) == {m.timestamp : m \in Range(lastApply[r].messages)}

RebuildMerkleHash(crdt) == MerkleInsertAll(EmptyTrie, {e.timestamp : e \in crdt})

\* C24: in mode enabled the trie of the one persisted clock row has the hash of the
\* trie rebuilt from all timestamps of the log, after every call of applyMessages,
\* committed or rolled back; the in-memory trie agrees with both.
PersistedTrieMatchesLog ==
    \A r \in Replicas :
        syncingMode[r] = "enabled" =>
            /\ MerkleHash(messagesClock[r].merkle)
                   = MerkleHash(RebuildMerkleHash(messagesCrdt[r]))
            /\ MerkleHash(clock[r].merkle) = MerkleHash(messagesClock[r].merkle)

\* a batch committed onto a log that already held messages, and the clock row was
\* replaced by it
PersistedTrieWitness ==
    /\ lastApply["A"].kind = "committed"
    /\ Cardinality(messagesCrdt["A"]) >= 2
    /\ lastApply["A"].pre.crdt # {}
    /\ messagesClock["A"] # lastApply["A"].pre.clockRow
    /\ MerkleHash(messagesClock["A"].merkle) # {}

(***************************************************************************)
(* Batches that hold a message with a malformed value: a value that is      *)
(* neither null, a number nor a string                                      *)
(***************************************************************************)
Malformed == "malformed"

MalformedMessage ==
    Message("transactions", "tx2", "amount", Timestamp(1, 0, "B"), Malformed)

MalformedBatches ==
    {s \in UNION {[1..n -> PeerMessages \cup {MalformedMessage}] : n \in 1..MaxMsgs} :
        \A i, j \in DOMAIN s : i # j => s[i] # s[j]}

\* lines 173-203: the loop has no branch that skips a message and no catch; what
\* apply(msg) and serializeValue(value) do with the value is either to throw,
\* which throws out of the transaction in the pass of that message, or to take
\* the value as it is
ApplyTransactionOfMalformed(r, i, f) ==
    /\ i \in DOMAIN applyRun[r]
    /\ \/ f = 0
       \/ /\ f \in DOMAIN applyRun[r][i].messages
          /\ applyRun[r][i].messages[f].value = Malformed
    /\ ApplyTransaction(r, i, f)

NextMalformed ==
    \/ \E b \in MalformedBatches : Deliver("A", b)
    \/ ApplyStart("A")
    \/ \E i \in DOMAIN applyRun["A"] : ApplyFetch("A", i)
    \/ \E i \in DOMAIN applyRun["A"], f \in 0..MaxMsgs :
           ApplyTransactionOfMalformed("A", i, f)

SpecMalformed == InitApply /\ [][NextMalformed]_vars

\* C23: when a batch holds a message with a malformed value, the call commits,
\* the malformed message is left out of rows and log, and every other message of
\* the batch is in the log.
MalformedSkippedAlone ==
    \A r \in Replicas :
        (lastApply[r].kind # "none" /\ MalformedMessage \in Range(lastApply[r].batch)) =>
            /\ lastApply[r].kind = "committed"
            /\ CrdtRow(MalformedMessage) \notin messagesCrdt[r]
            /\ rows[r][CellOf(MalformedMessage)] # Malformed
            /\ \A m \in Range(lastApply[r].batch) \ {MalformedMessage} :
                   CrdtRow(m) \in messagesCrdt[r]

(***************************************************************************)
(* The hybrid logical clock on its own: the wall clock moves freely and the *)
(* replica issues timestamps                                                *)
(***************************************************************************)
\* the wall clock is set to any value: forward, backward, or not at all
WallSet(w) ==
    /\ w \in 0..MaxWall
    /\ w # wall
    /\ wall' = w
    /\ UNCHANGED <<syncingMode, clock, rows, messagesCrdt, messagesClock, prefs,
                   applyQueue, applyRun, sync, lastApply, applied, issued, syncLog, tries,
                   budget, view, ui>>

\* Timestamp.send(): now() becomes the last issued timestamp
TimestampSend(r) ==
    /\ Len(issued[r]) < MaxIssued
    /\ LET ts == ClockNow(clock[r].timestamp, wall)
       IN  /\ clock' = [clock EXCEPT ![r] = [@ EXCEPT !.timestamp = ts]]
           /\ issued' = [issued EXCEPT ![r] = Append(@, ts)]
    /\ UNCHANGED <<wall, syncingMode, rows, messagesCrdt, messagesClock, prefs,
                   applyQueue, applyRun, sync, lastApply, applied, syncLog, tries,
                   budget, view, ui>>

NextClock ==
    \/ \E w \in 0..MaxWall : WallSet(w)
    \/ TimestampSend("A")

SpecClock == InitApply /\ [][NextClock]_vars

\* C10: the timestamps one replica issues by now() are strictly increasing in the
\* order they are issued, whatever the wall clock does in between.
IssuedStrictlyIncreasing ==
    \A r \in Replicas :
        \A i, j \in DOMAIN issued[r] :
            i < j => TsLess(issued[r][i], issued[r][j])

\* issued while the wall clock stood still, after it went backward behind the last
\* issued timestamp, and across a counter overflow
IssuedWitness ==
    /\ Len(issued["A"]) >= 3
    /\ \E i \in 1..(Len(issued["A"]) - 1) :
           /\ issued["A"][i].counter = MaxCounter
           /\ issued["A"][i + 1] = Timestamp(issued["A"][i].millis + 1, 0, "A")
    /\ \E i \in 1..(Len(issued["A"]) - 1) :
           /\ issued["A"][i + 1].millis = issued["A"][i].millis
           /\ issued["A"][i + 1].counter = issued["A"][i].counter + 1
    /\ wall < issued["A"][Len(issued["A"])].millis - 1
    /\ issued["A"][1].millis > 0

(***************************************************************************)
(* _fullSync(sinceTimestamp, count, prevDiffTime) as a process              *)
(***************************************************************************)
\* getMessagesSince(since): the log entries with a timestamp after since
GetMessagesSince(crdt, since) == {e \in crdt : TsLess(since, e.timestamp)}

\* the early return of _fullSync: sync disabled, offline, or no file loaded
CanSync(r) ==
    /\ ~CheckSyncingMode(r, "disabled")
    /\ ~CheckSyncingMode(r, "offline")
    /\ prefs[r].loaded

\* a round that ignores the since it is called with
SinceOfFirstRound(r, sinceTimestamp) ==
    IF prefs[r].lastSyncedTimestamp # NoTimestamp
    THEN prefs[r].lastSyncedTimestamp
    ELSE Timestamp(wall - DefaultSinceWindow, 0, "0")

\* sinceTimestamp || lastSyncedTimestamp || new Timestamp(Date.now() - 5 min, 0, '0')
SinceOf(r, sinceTimestamp) ==
    IF sinceTimestamp # NoTimestamp THEN sinceTimestamp
    ELSE IF prefs[r].lastSyncedTimestamp # NoTimestamp
         THEN prefs[r].lastSyncedTimestamp
         ELSE Timestamp(wall - DefaultSinceWindow, 0, "0")

\* one call of _fullSync up to the await of the post of the request
RoundBegin(r, sinceTimestamp, count, prevDiffTime, received) ==
    [pc |-> "waiting",
     since |-> SinceOf(r, sinceTimestamp),
     count |-> count,
     prevDiffTime |-> prevDiffTime,
     currentTime |-> clock[r].timestamp,
     groupId |-> prefs[r].groupId,
     sent |-> GetMessagesSince(messagesCrdt[r], SinceOf(r, sinceTimestamp)),
     res |-> NoResponse,
     localTimeChanged |-> FALSE,
     received |-> received]

\* history: the state a fullSync, or one of its rounds, starts in; kept while the
\* fullSync runs and after it ended in an error
SyncSnapshot(r) ==
    [snap |-> Snapshot(r), since |-> prefs[r].lastSyncedTimestamp,
     edits |-> Len(issued[r]), calls |-> Len(applyQueue[r]) + Len(applyRun[r])]

\* fullSync(): the first call is _fullSync(null, 0, null)
FullSyncStart(r) ==
    /\ sync[r].pc = "idle"
    /\ IF CanSync(r)
       THEN /\ sync' = [sync EXCEPT ![r] = RoundBegin(r, NoTimestamp, 0, NullTime, {})]
            /\ syncLog' = [syncLog EXCEPT ![r] =
                   [state |-> "Syncing", error |-> Null, result |-> {},
                    attempt |-> 0, sameRun |-> 0,
                    pre |-> SyncSnapshot(r), roundPre |-> SyncSnapshot(r),
                    startTime |-> clock[r].timestamp,
                    roundTime |-> clock[r].timestamp,
                    appended |-> {}, sentLater |-> {}]]
       ELSE /\ UNCHANGED sync
            /\ syncLog' = [syncLog EXCEPT ![r] = NoSyncLog]
    /\ UNCHANGED <<wall, syncingMode, clock, rows, messagesCrdt, messagesClock, prefs,
                   applyQueue, applyRun, lastApply, applied, issued, tries,
                   budget, view, ui>>

\* the post of the request throws
\* a failure handler that keeps the time of the failed round as the cursor
NetworkFailSavingCursor(r) ==
    /\ sync[r].pc = "waiting"
    /\ sync' = [sync EXCEPT ![r] = IdleSync]
    /\ syncLog' = [syncLog EXCEPT ![r] =
           [@ EXCEPT !.state = "Error", !.error = "network-failure"]]
    /\ prefs' = [prefs EXCEPT ![r] =
           [@ EXCEPT !.lastSyncedTimestamp = sync[r].currentTime]]
    /\ UNCHANGED <<wall, syncingMode, clock, rows, messagesCrdt, messagesClock,
                   applyQueue, applyRun, lastApply, applied, issued, tries,
                   budget, view, ui>>

\* postBinary throws (network failure or timeout): _fullSync has no catch, the
\* error reaches the caller of fullSync
NetworkFail(r) ==
    /\ sync[r].pc = "waiting"
    /\ sync' = [sync EXCEPT ![r] = IdleSync]
    /\ syncLog' = [syncLog EXCEPT ![r] =
           [@ EXCEPT !.state = "Error", !.error = "network-failure"]]
    /\ UNCHANGED <<wall, syncingMode, clock, rows, messagesCrdt, messagesClock, prefs,
                   applyQueue, applyRun, lastApply, applied, issued, tries,
                   budget, view, ui>>

\* a round that goes on whatever the identity of the file is
IdentityUnchecked(r) == TRUE

\* the identity check after the round trip
IdentityUnchanged(r) == prefs[r].loaded /\ prefs[r].groupId = sync[r].groupId

\* after the round trip: the identity check, localTimeChanged, receiveMessages
FullSyncReceive(r) ==
    /\ sync[r].pc = "responded"
    /\ IF ~IdentityUnchanged(r)
       THEN /\ sync' = [sync EXCEPT ![r] = IdleSync]
            /\ syncLog' = [syncLog EXCEPT ![r] =
                   [@ EXCEPT !.state = "Aborted", !.result = sync[r].received,
                             !.pre = NoSnapshot, !.roundPre = NoSnapshot]]
            /\ UNCHANGED applyQueue
       ELSE /\ sync' = [sync EXCEPT ![r] =
                   [@ EXCEPT !.localTimeChanged =
                                 (clock[r].timestamp # sync[r].currentTime),
                             !.pc = IF Len(sync[r].res.messages) > 0
                                    THEN "applying" ELSE "received"]]
            /\ IF Len(sync[r].res.messages) > 0
               THEN ApplyMessagesCall(r, sync[r].res.messages, "receiveMessages")
               ELSE UNCHANGED applyQueue
            /\ UNCHANGED syncLog
    /\ UNCHANGED <<wall, syncingMode, clock, rows, messagesCrdt, messagesClock, prefs,
                   applyRun, lastApply, applied, issued, tries,
                   budget, view, ui>>

\* the since of the next round: the diverging time when it is before the since of
\* this round
NextSince(since, diffTime) ==
    IF TsLess(Timestamp(diffTime, 0, "0"), since)
    THEN Timestamp(diffTime, 0, "0") ELSE since

\* (count >= 10 && diffTime === prevDiffTime) || count >= 100
OutOfSync(count, diffTime, prevDiffTime) ==
    \/ count >= SameDiffAttempts /\ diffTime = prevDiffTime
    \/ count >= MaxAttempts

\* the count of the next round
NextCount(count, localTimeChanged) == IF localTimeChanged THEN 0 ELSE count + 1

\* a cursor read from the clock at the time of convergence
ConvergedCursorLive(r) == clock[r].timestamp

\* the cursor persisted on convergence: currentTime, the snapshot of line 255
ConvergedCursor(r) == sync[r].currentTime

\* merkle.diff of the tries; out-of-sync, another round, or convergence
FullSyncDiff(r) ==
    /\ sync[r].pc = "received"
    /\ LET diffTime == MerkleDiff(sync[r].res.merkle, clock[r].merkle)
       IN  IF diffTime # NullTime
           THEN IF OutOfSync(sync[r].count, diffTime, sync[r].prevDiffTime)
                THEN /\ sync' = [sync EXCEPT ![r] = IdleSync]
                     /\ syncLog' = [syncLog EXCEPT ![r] =
                            [@ EXCEPT !.state = "Error", !.error = "out-of-sync",
                                      !.sameRun = IF diffTime = sync[r].prevDiffTime
                                                  THEN @ + 1 ELSE 1]]
                     /\ UNCHANGED prefs
                ELSE IF CanSync(r)
                THEN /\ sync' = [sync EXCEPT ![r] =
                            RoundBegin(r, NextSince(@.since, diffTime),
                                       NextCount(@.count, @.localTimeChanged),
                                       diffTime, @.received)]
                     /\ syncLog' = [syncLog EXCEPT ![r] =
                            [@ EXCEPT !.attempt = @ + 1,
                                      !.sameRun = IF diffTime = sync[r].prevDiffTime
                                                  THEN @ + 1 ELSE 1,
                                      !.roundPre = SyncSnapshot(r),
                                      !.roundTime = clock[r].timestamp,
                                      !.sentLater = @ \cup sync'[r].sent]]
                     /\ UNCHANGED prefs
                ELSE /\ sync' = [sync EXCEPT ![r] = IdleSync]
                     /\ syncLog' = [syncLog EXCEPT ![r] =
                            [@ EXCEPT !.state = "Aborted",
                                      !.result = sync[r].received,
                                      !.pre = NoSnapshot, !.roundPre = NoSnapshot]]
                     /\ UNCHANGED prefs
           ELSE /\ sync' = [sync EXCEPT ![r] = IdleSync]
                /\ syncLog' = [syncLog EXCEPT ![r] =
                       [@ EXCEPT !.state = "Converged", !.result = sync[r].received,
                                 !.pre = NoSnapshot, !.roundPre = NoSnapshot]]
                /\ prefs' = [prefs EXCEPT ![r] =
                       [@ EXCEPT !.lastSyncedTimestamp = ConvergedCursor(r)]]
    /\ UNCHANGED <<wall, syncingMode, clock, rows, messagesCrdt, messagesClock,
                   applyQueue, applyRun, lastApply, applied, issued, tries,
                   budget, view, ui>>

\* sendMessages: a local edit takes a timestamp from the clock and applies its
\* message through applyMessages
LocalEdit(r, c, v) ==
    /\ prefs[r].loaded
    /\ Len(issued[r]) < MaxEdits
    /\ LET ts == ClockNow(clock[r].timestamp, wall)
       IN  /\ clock' = [clock EXCEPT ![r] = [@ EXCEPT !.timestamp = ts]]
           /\ issued' = [issued EXCEPT ![r] = Append(@, ts)]
           /\ ApplyMessagesCall(r, <<Message(c[1], c[2], c[3], ts, v)>>,
                                "sendMessages")
    /\ UNCHANGED <<wall, syncingMode, rows, messagesCrdt, messagesClock, prefs,
                   applyRun, sync, lastApply, applied, syncLog, tries,
                   budget, view, ui>>

\* while a round waits on the network the file is closed, or its sync is reset and
\* it gets another group id
IdentityChange(r, how) ==
    /\ sync[r].pc \in {"waiting", "responded"}
    /\ IdentityUnchanged(r)
    /\ prefs' = [prefs EXCEPT ![r] =
           IF how = "close" THEN [@ EXCEPT !.loaded = FALSE]
           ELSE [@ EXCEPT !.groupId = "g2"]]
    /\ UNCHANGED <<wall, syncingMode, clock, rows, messagesCrdt, messagesClock,
                   applyQueue, applyRun, sync, lastApply, applied, issued, syncLog, tries,
                   budget, view, ui>>

(***************************************************************************)
(* One replica against a peer that answers whatever it likes                *)
(***************************************************************************)
\* a timestamp no replica has issued, in the bucket of tick d
Phantom(d) == Timestamp(d, 0, "0")

\* the bucket the stub makes the tries differ in
StubDiffs == {NullTime, 1, 2}

\* the peer answers with a batch and a trie: the trie the replica would have after
\* applying the batch, shifted by a phantom timestamp unless d is null
PeerStubRespond(r, batch, d) ==
    /\ sync[r].pc = "waiting"
    /\ sync' = [sync EXCEPT ![r] =
           [@ EXCEPT !.pc = "responded",
                     !.res = [messages |-> batch,
                              merkle |-> MerkleInsertAll(clock[r].merkle,
                                             {m.timestamp : m \in Range(batch)}
                                             \cup (IF d = NullTime THEN {}
                                                   ELSE {Phantom(d)}))]]]
    /\ UNCHANGED <<wall, syncingMode, clock, rows, messagesCrdt, messagesClock, prefs,
                   applyQueue, applyRun, lastApply, applied, issued, syncLog, tries,
                   budget, view, ui>>

NextLoop ==
    \/ FullSyncStart("A")
    \/ \E d \in StubDiffs : PeerStubRespond("A", <<>>, d)
    \/ NetworkFail("A")
    \/ FullSyncReceive("A")
    \/ FullSyncDiff("A")
    \/ /\ sync["A"].pc # "idle"
       /\ syncLog["A"].attempt <= MaxEditAttempt
       /\ LocalEdit("A", <<"transactions", "tx1", "amount">>, "a")
    \/ ApplyStart("A")
    \/ \E i \in DOMAIN applyRun["A"] : ApplyFetch("A", i)
    \/ \E i \in DOMAIN applyRun["A"] : ApplyTransaction("A", i, 0)

SpecLoop == InitApply /\ [][NextLoop]_vars

\* C6: whatever the peer answers, a fullSync is over (converged, out of sync, or
\* another error) by round 100: no fullSync ever runs a round after round 100,
\* rounds being numbered from 0.
SyncEndsByAttempt100 ==
    \A r \in Replicas : syncLog[r].attempt <= MaxAttempts

\* C7: a fullSync ends out of sync without having reached the hard cap of 100 only
\* when the diverging time was the same in at least 10 consecutive rounds, and it
\* does not go on to another round once the diverging time has been the same in
\* more than 10 consecutive rounds.
OutOfSyncOnlyAfterTenIdentical ==
    \A r \in Replicas :
        /\ (syncLog[r].state = "Error" /\ syncLog[r].error = "out-of-sync"
            /\ syncLog[r].attempt < MaxAttempts)
               => syncLog[r].sameRun >= SameDiffAttempts
        /\ syncLog[r].state = "Syncing" => syncLog[r].sameRun <= SameDiffAttempts

(***************************************************************************)
(* One replica, a peer that delivers messages and diverges for a few        *)
(* rounds, a user who edits, closes the file or resets its sync             *)
(***************************************************************************)
\* what the peer sends: nothing, or the first of its messages the log lacks
StubBatches(r) ==
    LET lacking == {i \in 1..Min(MaxMsgs, Len(PeerMessageList)) :
                       CrdtRow(PeerMessageList[i]) \notin messagesCrdt[r]}
    IN  {<<>>} \cup (IF lacking = {} THEN {}
                     ELSE {<<PeerMessageList[CHOOSE i \in lacking :
                                                \A j \in lacking : i <= j]>>})

NextRound ==
    \/ FullSyncStart("A")
    \/ \E batch \in StubBatches("A"), d \in {NullTime, 1} :
           /\ d # NullTime => syncLog["A"].attempt < MaxDiverge
           /\ PeerStubRespond("A", batch, d)
    \/ NetworkFail("A")
    \/ FullSyncReceive("A")
    \/ FullSyncDiff("A")
    \/ LocalEdit("A", <<"transactions", "tx1", "amount">>, "a")
    \/ \E how \in {"close", "reset"} : IdentityChange("A", how)
    \/ ApplyStart("A")
    \/ \E i \in DOMAIN applyRun["A"] : ApplyFetch("A", i)
    \/ \E i \in DOMAIN applyRun["A"] : ApplyTransaction("A", i, 0)

SpecRound == InitApply /\ [][NextRound]_vars

NetworkFailed(r) ==
    syncLog[r].state = "Error" /\ syncLog[r].error = "network-failure"

\* no local edit was pending at the time of history h nor made since
NoLocalEditSince(r, h) == h.calls = 0 /\ Len(issued[r]) = h.edits

\* the remote messages of a log
RemoteOf(r, crdt) == {e \in crdt : e.timestamp.node # r}

LocalModes == {"disabled", "offline"}

InitLocal ==
    /\ InitFile
    /\ syncingMode \in [Replicas -> LocalModes]
    /\ syncingMode["B"] = "disabled"

\* the batches handed to applyMessages: one message, or the first two of the list
LocalBatches ==
    {<<m>> : m \in PeerMessages} \cup {<<PeerMessageList[1], PeerMessageList[2]>>}

NextLocal ==
    \/ LocalEdit("A", <<"transactions", "tx1", "amount">>, "a")
    \/ \E b \in LocalBatches : Deliver("A", b)
    \/ FullSyncStart("A")
    \/ ApplyStart("A")
    \/ \E i \in DOMAIN applyRun["A"] : ApplyFetch("A", i)
    \/ \E i \in DOMAIN applyRun["A"], f \in 0..1 : ApplyTransaction("A", i, f)

SpecLocal == InitLocal /\ [][NextLocal]_vars

\* C17: in mode disabled or offline no step of applyMessages changes the clock or
\* its trie in memory, the persisted clock row or the message log: the trie and
\* the clock row stay as they were when the file was opened, only rows change.
LocalApplyTouchesRowsOnly ==
    /\ [](\A r \in Replicas :
             syncingMode[r] \in LocalModes =>
                 /\ clock[r].merkle = EmptyTrie
                 /\ messagesClock[r] = [timestamp |-> Timestamp(0, 0, r),
                                        merkle |-> EmptyTrie]
                 /\ messagesCrdt[r] = {})
    /\ [][\A r \in Replicas :
             (syncingMode[r] \in LocalModes /\ applyRun'[r] # applyRun[r]) =>
                 /\ clock'[r] = clock[r]
                 /\ messagesClock'[r] = messagesClock[r]
                 /\ messagesCrdt'[r] = messagesCrdt[r]]_vars

\* an offline file committed a batch that changed a row, with a timestamp ahead
\* of its clock
LocalApplyWitness ==
    /\ syncingMode["A"] = "offline"
    /\ lastApply["A"].kind = "committed"
    /\ rows["A"] # EmptyTables
    /\ \E m \in Range(lastApply["A"].batch) :
           TsLess(clock["A"].timestamp, m.timestamp)
    /\ clock["A"].merkle = EmptyTrie

(***************************************************************************)
(* Two replicas: A runs fullSync, B is its peer; both are edited locally    *)
(***************************************************************************)
\* the rows of a request or response as an array of messages
AsBatch(set) ==
    LET messages == {RowAsMessage(e) : e \in set}
    IN  CHOOSE s \in [1..Cardinality(set) -> messages] : Range(s) = messages

\* the peer q handles the request of r: it applies the messages sent, and answers
\* with its own messages since the since of the request and with its trie
PeerRespond(r, q) ==
    /\ q # r
    /\ sync[r].pc = "waiting"
    /\ applyQueue[q] = <<>> /\ applyRun[q] = <<>>
    /\ LET messages == SortMessages(ComparedBatch("enabled", messagesCrdt[q],
                                                  AsBatch(sync[r].sent)))
           st0 == [tables |-> rows[q], crdt |-> messagesCrdt[q],
                   clockRow |-> messagesClock[q],
                   oldData |-> FetchData(rows[q], messages), added |-> {},
                   currentMerkle |-> clock[q].merkle, threw |-> Null]
           after == TransactionBody(messages, st0, TRUE, clock[q].timestamp, 0)
       IN  /\ rows' = [rows EXCEPT ![q] = after.tables]
           /\ messagesCrdt' = [messagesCrdt EXCEPT ![q] = after.crdt]
           /\ messagesClock' = [messagesClock EXCEPT ![q] = after.clockRow]
           /\ clock' = [clock EXCEPT ![q] =
                  [timestamp |-> ReceiveAll(@.timestamp, messages, Len(messages)),
                   merkle |-> after.currentMerkle]]
           /\ sync' = [sync EXCEPT ![r] =
                  [@ EXCEPT !.pc = "responded",
                            !.res = [messages |-> SortMessages(AsBatch(
                                         GetMessagesSince(messagesCrdt[q],
                                                          sync[r].since))),
                                     merkle |-> after.currentMerkle]]]
    /\ UNCHANGED <<wall, syncingMode, prefs, applyQueue, applyRun, lastApply, applied,
                   issued, syncLog, tries,
                   budget, view, ui>>

ApplySteps(r) ==
    \/ ApplyStart(r)
    \/ \E i \in DOMAIN applyRun[r] : ApplyFetch(r, i)
    \/ \E i \in DOMAIN applyRun[r] : ApplyTransaction(r, i, 0)

\* the steps the program takes by itself
SyncSteps ==
    \/ ApplySteps("A")
    \/ ApplySteps("B")
    \/ FullSyncStart("A")
    \/ PeerRespond("A", "B")
    \/ FullSyncReceive("A")
    \/ FullSyncDiff("A")

\* edits the user of the peer makes
PeerEdits == 1

NextSync ==
    \/ WallSet(MaxWall)
    \/ LocalEdit("A", <<"transactions", "tx1", "amount">>, "a")
    \/ /\ Len(issued["B"]) < PeerEdits
       /\ LocalEdit("B", <<"transactions", "tx1", "amount">>, "b")
    \/ SyncSteps

\* the program keeps taking steps while it has one to take; edits and the wall
\* clock are free
\* ENABLED <<SyncSteps>>_vars as a state predicate: a fullSync that is idle can
\* start, one that waits is answered unless the peer is busy applying, and one
\* that applies has a call of applyMessages queued or running
SyncStepsEnabled ==
    \/ applyQueue["A"] # <<>> \/ applyRun["A"] # <<>>
    \/ applyQueue["B"] # <<>> \/ applyRun["B"] # <<>>
    \/ sync["A"].pc # "applying"

\* weak fairness of SyncSteps, with its enabling condition spelled out
FairSync ==
    /\ WF_vars(FullSyncStart("A"))
    /\ ([]<>(~SyncStepsEnabled) \/ []<><<SyncSteps>>_vars)

SpecSync == InitApply /\ [][NextSync]_vars /\ FairSync

InSync ==
    /\ MerkleDiff(clock["A"].merkle, clock["B"].merkle) = NullTime
    /\ rows["A"] = rows["B"]

\* C25: a local message appended to the log while a round of a fullSync waits
\* for the answer is not skipped: when the fullSync has converged the message
\* was sent by a later round of it, or its timestamp is after the cursor the
\* fullSync persisted, so that the next fullSync sends it.
AppendedWhileWaitingNotSkipped ==
    \A r \in DOMAIN syncLog :
        syncLog[r].state = "Converged" =>
            \A m \in syncLog[r].appended :
                \/ m \in syncLog[r].sentLater
                \/ TsLess(prefs[r].lastSyncedTimestamp, m.timestamp)

\* a fullSync converged after a later round sent a message that was appended
\* while an earlier round waited, although the cursor is not before the message
AppendedWhileWaitingWitness ==
    \E r \in DOMAIN syncLog :
        /\ syncLog[r].state = "Converged"
        /\ \E m \in syncLog[r].appended :
              /\ m \in syncLog[r].sentLater
              /\ ~TsLess(prefs[r].lastSyncedTimestamp, m.timestamp)

\* C5: two replicas that are edited independently and keep running fullSync end
\* up, and stay, in a state where the diff of their tries is null and every field
\* has the same value on both.
Convergence == <>[]InSync

\* both replicas have written the same field, A needed a second round to get the
\* message of B, and the replicas agree on the later value
ConvergenceWitness ==
    /\ InSync
    /\ Len(issued["A"]) >= 1
    /\ Len(issued["B"]) >= 1
    /\ syncLog["A"].state = "Converged"
    /\ syncLog["A"].attempt >= 1
    /\ rows["A"][<<"transactions", "tx1", "amount">>] = "a"

(***************************************************************************)
(* Clock and trie properties                                                *)
(***************************************************************************)
\* the messages of other replicas in the log of r
RemoteApplied(r) == {e \in messagesCrdt[r] : e.timestamp.node # r}

\* C11: whenever a replica issues a timestamp, the timestamp is strictly greater
\* than the timestamp of every remote message the replica has applied before.
RepliesAfterRemote ==
    [][\A r \in Replicas :
          Len(issued'[r]) > Len(issued[r]) =>
              \A e \in RemoteApplied(r) :
                  TsLess(e.timestamp, issued'[r][Len(issued'[r])])]_vars

\* a local edit made after a remote message from a later tick was applied, while
\* the wall clock of the replica is still behind that tick
RepliesAfterRemoteWitness ==
    /\ Len(issued["A"]) >= 1
    /\ \E e \in RemoteApplied("A") :
           /\ e.timestamp.millis > wall
           /\ TsLess(e.timestamp, issued["A"][Len(issued["A"])])
           /\ issued["A"][Len(issued["A"])].millis = e.timestamp.millis

TrieTimestampList ==
    << Timestamp(0, 0, "A"), Timestamp(3, 0, "B"), Timestamp(0, 1, "B"),
       Timestamp(9, 0, "A"), Timestamp(1, 0, "A"), Timestamp(4, 1, "B") >>

TrieTimestamps ==
    {TrieTimestampList[i] : i \in 1..Min(MaxTrieTs, Len(TrieTimestampList))}

TrieInsertA(ts) ==
    /\ ts \notin tries.inA
    /\ tries' = [tries EXCEPT !.a = MerkleInsert(@, ts), !.inA = @ \cup {ts}]
    /\ UNCHANGED <<wall, syncingMode, clock, rows, messagesCrdt, messagesClock, prefs,
                   applyQueue, applyRun, sync, lastApply, applied, issued, syncLog,
                   budget, view, ui>>

TrieInsertB(ts) ==
    /\ ts \notin tries.inB
    /\ tries' = [tries EXCEPT !.b = MerkleInsert(@, ts), !.inB = @ \cup {ts}]
    /\ UNCHANGED <<wall, syncingMode, clock, rows, messagesCrdt, messagesClock, prefs,
                   applyQueue, applyRun, sync, lastApply, applied, issued, syncLog,
                   budget, view, ui>>

NextTrie ==
    \/ \E ts \in TrieTimestamps : TrieInsertA(ts)
    \/ \E ts \in TrieTimestamps : TrieInsertB(ts)

SpecTrie == InitApply /\ [][NextTrie]_vars

DifferingBuckets(a, b) ==
    {t \in 0..(Pow(KeyBase, KeyDigits) - 1) : HashOf(Bucket(a, t)) # HashOf(Bucket(b, t))}

PruneTimestampList ==
    << Timestamp(0, 0, "A"), Timestamp(1, 0, "B"), Timestamp(2, 0, "A"),
       Timestamp(4, 0, "B"), Timestamp(1, 1, "A"), Timestamp(7, 0, "B") >>

PruneTimestamps ==
    {PruneTimestampList[i] : i \in 1..Min(MaxTrieTs, Len(PruneTimestampList))}

\* lines 205-206: currentMerkle = merkle.prune(currentMerkle)
TriePrune(which) ==
    /\ tries[which] # MerklePrune(tries[which])
    /\ tries' = [tries EXCEPT ![which] = MerklePrune(@)]
    /\ UNCHANGED <<wall, syncingMode, clock, rows, messagesCrdt, messagesClock, prefs,
                   applyQueue, applyRun, sync, lastApply, applied, issued, syncLog,
                   budget, view, ui>>

NextPrune ==
    \/ \E ts \in PruneTimestamps : TrieInsertA(ts)
    \/ \E ts \in PruneTimestamps : TrieInsertB(ts)
    \/ \E which \in {"a", "b"} : TriePrune(which)

SpecPrune == InitApply /\ [][NextPrune]_vars

Categories == {"c1", "c2"}
Months == {"2026-01", "2026-02"}

\* a row of table categories: the stored template definition, the template line
\* of the notes of the category (Null: the notes have no #template line)
CategoryRows == [goal_def : {Null, "t1"}, note : {Null, "t1", "t2"}, tombstone : BOOLEAN]

\* a row of the budget table of a month: no goal, a goal of zero, a goal, a long goal
BudgetRows ==
    { [goal |-> Null, long_goal |-> Null, budgeted |-> "1000"],
      [goal |-> "0", long_goal |-> Null, budgeted |-> "0"],
      [goal |-> "500", long_goal |-> Null, budgeted |-> "1000"],
      [goal |-> "500", long_goal |-> "1", budgeted |-> "0"] }

\* storeNoteTemplates(): goal_def becomes what the notes say, NULL for notes
\* without a #template line
StoreNoteTemplates(categories) ==
    [c \in DOMAIN categories |-> [categories[c] EXCEPT !.goal_def = categories[c].note]]

\* getTemplates(): the ids of the categories whose goal_def is not null
GetTemplates(categories) == {c \in DOMAIN categories : categories[c].goal_def # Null}

\* getOrphanedGoals(month, categoryIds): those whose goal is neither null nor 0
GetOrphanedGoals(budgets, month, categoryIds) ==
    {c \in categoryIds : budgets[month][c].goal # Null /\ budgets[month][c].goal # "0"}

\* setGoals(month, templateGoal): setGoal for every element
SetGoals(budgets, month, templateGoal) ==
    [budgets EXCEPT ![month] =
        [c \in DOMAIN @ |->
            IF \E e \in templateGoal : e.category = c
            THEN LET e == CHOOSE e \in templateGoal : e.category = c
                 IN  [@[c] EXCEPT !.goal = e.goal, !.long_goal = e.longGoal]
            ELSE @[c]]]

\* resetTemplatesForMonth({ month })
ResetTemplatesForMonth(month) ==
    /\ month \in DOMAIN budget.budgets
    /\ LET stored == StoreNoteTemplates(budget.categories)
           categoriesWithTemplates == GetTemplates(stored)
           allCategories == {c \in DOMAIN stored : ~stored[c].tombstone}
           categoriesWithoutTemplates == allCategories \ categoriesWithTemplates
           orphanedGoalCategories ==
               GetOrphanedGoals(budget.budgets, month, categoriesWithoutTemplates)
           totalCategoriesToReset ==
               Cardinality(categoriesWithTemplates) + Cardinality(orphanedGoalCategories)
           templateGoals ==
               {[category |-> c, goal |-> Null, longGoal |-> Null] :
                    c \in categoriesWithTemplates \cup orphanedGoalCategories}
           message ==
               IF totalCategoriesToReset = 0 THEN "nothing to reset"
               ELSE IF categoriesWithTemplates # {} /\ orphanedGoalCategories # {}
               THEN "reset templates and cleared orphaned goals"
               ELSE IF orphanedGoalCategories # {} THEN "cleared orphaned goals"
               ELSE "reset templates"
       IN  budget' =
               [categories |-> stored,
                budgets |-> IF totalCategoriesToReset = 0 THEN budget.budgets
                            ELSE SetGoals(budget.budgets, month, templateGoals),
                last |-> [month |-> month, category |-> Null, type |-> "message",
                          message |-> message,
                          categories |-> budget.categories,
                          budgets |-> budget.budgets]]
    /\ UNCHANGED <<wall, syncingMode, clock, rows, messagesCrdt, messagesClock, prefs,
                   applyQueue, applyRun, sync, lastApply, applied, issued, syncLog,
                   tries, view, ui>>

\* a test of the goal that takes a goal of 0 for a goal
NoExistingGoalNullOnly(existingGoal) == existingGoal = Null

\* existingGoal === null || existingGoal === 0
NoExistingGoal(existingGoal) == existingGoal = Null \/ existingGoal = "0"

\* resetSingleCategoryTemplate({ month, category })
ResetSingleCategoryTemplate(month, category) ==
    /\ month \in DOMAIN budget.budgets
    /\ category \in DOMAIN budget.categories
    /\ LET stored == StoreNoteTemplates(budget.categories)
           hasTemplate == category \in GetTemplates(stored)
           existingGoal == budget.budgets[month][category].goal
           cleared == SetGoals(budget.budgets, month,
                               {[category |-> category, goal |-> Null, longGoal |-> Null]})
           none == ~hasTemplate /\ NoExistingGoal(existingGoal)
           message ==
               IF hasTemplate THEN "Template reset successfully"
               ELSE IF none THEN "No template or goal found for this category"
               ELSE "Orphaned goal cleared successfully"
       IN  budget' =
               [categories |-> stored,
                budgets |-> IF none THEN budget.budgets ELSE cleared,
                last |-> [month |-> month, category |-> category,
                          type |-> IF none THEN "error" ELSE "message",
                          message |-> message,
                          categories |-> budget.categories,
                          budgets |-> budget.budgets]]
    /\ UNCHANGED <<wall, syncingMode, clock, rows, messagesCrdt, messagesClock, prefs,
                   applyQueue, applyRun, sync, lastApply, applied, issued, syncLog,
                   tries, view, ui>>

InitBudget ==
    /\ InitEngine
    /\ syncingMode = [r \in Replicas |-> "enabled"]
    /\ tries = NoTries
    /\ view = NoView
    /\ ui = NoUi
    /\ \E categories \in [Categories -> CategoryRows],
          budgets \in [Months -> [Categories -> BudgetRows]] :
           budget = [categories |-> categories, budgets |-> budgets,
                     last |-> [month |-> Null, category |-> Null, type |-> Null,
                               message |-> Null,
                               categories |-> categories, budgets |-> budgets]]

NextBudget ==
    \/ \E month \in Months : ResetTemplatesForMonth(month)
    \/ \E month \in Months, category \in Categories :
           ResetSingleCategoryTemplate(month, category)

SpecBudget == InitBudget /\ [][NextBudget]_vars

\* C18: after resetTemplatesForMonth(month) the goal_def of every category, every
\* budgeted amount and the goal state of every other month are what they were
\* before the call.
ResetKeepsDefinitions ==
    budget.last.month # Null /\ budget.last.category = Null =>
        /\ \A c \in Categories :
               budget.categories[c].goal_def = budget.last.categories[c].goal_def
        /\ \A m \in Months, c \in Categories :
               budget.budgets[m][c].budgeted = budget.last.budgets[m][c].budgeted
        /\ \A m \in Months \ {budget.last.month} :
               budget.budgets[m] = budget.last.budgets[m]

(***************************************************************************)
(* sortCategoriesByScheduleDueDate: the category groups of the budget page  *)
(***************************************************************************)
\* due dates, YYYY-MM-DD, in the order localeCompare gives them
DueDates == <<"2026-01-05", "2026-01-20">>

DateRank(d) == CHOOSE i \in DOMAIN DueDates : DueDates[i] = d

\* the category at position k of group g, as the server returns it: sort_order
\* grows with the position; due is scheduleDueDates.get(id), Null for null or absent
CategoriesAt(g, k) ==
    [id : {<<g, k>>}, hidden : BOOLEAN, sort_order : {k},
     due : {Null} \cup {DueDates[i] : i \in DOMAIN DueDates}]

\* the arrays of categories a group can hold
CategoryLists(g) ==
    UNION {{s \in [1..n -> UNION {CategoriesAt(g, k) : k \in 1..n}] :
               \A k \in 1..n : s[k] \in CategoriesAt(g, k)} : n \in 0..MaxCats}

\* lines 27-38: the bucket a category goes to
BucketOf(category, showHiddenCategories) ==
    IF category.hidden /\ ~showHiddenCategories THEN "hidden"
    ELSE IF category.due # Null THEN "scheduled"
    ELSE "nonScheduled"

\* comparators that never look at the due date
CompareCategoriesBySortOrder(a, b, byDate) == a.sort_order - b.sort_order

\* lines 42-57: the comparators; negative means a goes before b
CompareCategories(a, b, byDate) ==
    IF byDate /\ DateRank(a.due) # DateRank(b.due)
    THEN DateRank(a.due) - DateRank(b.due)
    ELSE a.sort_order - b.sort_order

\* Array.prototype.sort is stable: insertion after the elements that compare equal
RECURSIVE InsertCategory(_, _, _)
InsertCategory(sorted, c, byDate) ==
    IF sorted = <<>> THEN <<c>>
    ELSE IF CompareCategories(c, Head(sorted), byDate) < 0
         THEN <<c>> \o sorted
         ELSE <<Head(sorted)>> \o InsertCategory(Tail(sorted), c, byDate)

RECURSIVE SortCategories(_, _, _)
SortCategories(categories, k, byDate) ==
    IF k = 0 THEN <<>>
    ELSE InsertCategory(SortCategories(categories, k - 1, byDate), categories[k], byDate)

\* lines 17-67, for one group
SortGroup(group, showHiddenCategories) ==
    IF Len(group.categories) = 0 THEN group
    ELSE LET in(b) == SelectSeq(group.categories,
                          LAMBDA c : BucketOf(c, showHiddenCategories) = b)
             hidden == in("hidden")
             scheduled == SortCategories(in("scheduled"), Len(in("scheduled")), TRUE)
             nonScheduled ==
                 SortCategories(in("nonScheduled"), Len(in("nonScheduled")), FALSE)
         IN  [group EXCEPT !.categories = scheduled \o nonScheduled \o hidden]

\* sortCategoriesByScheduleDueDate(categoryGroups, scheduleDueDates, showHiddenCategories)
SortCategoriesByScheduleDueDate ==
    /\ ~view.done
    /\ view' = [view EXCEPT
           !.sorted = [g \in DOMAIN view.categoryGroups |->
                          SortGroup(view.categoryGroups[g], view.showHiddenCategories)],
           !.done = TRUE]
    /\ UNCHANGED <<wall, syncingMode, clock, rows, messagesCrdt, messagesClock, prefs,
                   applyQueue, applyRun, sync, lastApply, applied, issued, syncLog,
                   tries, budget, ui>>

InitView ==
    /\ InitEngine
    /\ syncingMode = [r \in Replicas |-> "enabled"]
    /\ tries = NoTries
    /\ budget = NoBudget
    /\ ui = NoUi
    /\ \E n \in 1..2, show \in BOOLEAN :
           \E first \in CategoryLists(1) :
               \E second \in IF n = 2 THEN CategoryLists(2) ELSE {<<>>} :
                   view = [categoryGroups |->
                              [g \in 1..n |->
                                  [id |-> g,
                                   categories |-> IF g = 1 THEN first ELSE second]],
                           showHiddenCategories |-> show, sorted |-> <<>>,
                           done |-> FALSE]

NextView == SortCategoriesByScheduleDueDate

SpecView == InitView /\ [][NextView]_vars

\* C19: in every group sortCategoriesByScheduleDueDate returns, no hidden category
\* comes before a category that is not hidden, whatever showHiddenCategories is.
HiddenAlwaysAtEnd ==
    view.done =>
        \A g \in DOMAIN view.sorted :
            LET categories == view.sorted[g].categories
            IN  \A i, j \in DOMAIN categories :
                    i < j => ~(categories[i].hidden /\ ~categories[j].hidden)

\* the order the three parts of the statement ask of the categories of one group
\* at the positions counted
OrderedByDueDate(categories, counted) ==
    \A i, j \in counted :
        /\ categories[i].due # Null /\ categories[j].due = Null => i < j
        /\ i < j /\ categories[i].due # Null /\ categories[j].due # Null =>
               \/ DateRank(categories[i].due) < DateRank(categories[j].due)
               \/ /\ categories[i].due = categories[j].due
                  /\ categories[i].sort_order <= categories[j].sort_order
        /\ i < j /\ categories[i].due = Null /\ categories[j].due = Null =>
               categories[i].sort_order <= categories[j].sort_order

SingleResetRefused ==
    /\ budget.last.type = "error"
    /\ budget.last.message = "No template or goal found for this category"
    /\ budget.budgets = budget.last.budgets

MaxRenders == 3

LookbackMonths == 12

HookMonths == 1..2

Spreadsheets == {"s1", "s2"}

SubscriptionHooks == {"useGoalTargetSum", "useGoalFundingStatus"}

\* monthUtils.sheetForMonth(month)
SheetForMonth(month) == <<"budget", month>>

\* the sheets of the 12 months before month
FallbackMonths(month) == {SheetForMonth(month - i) : i \in 1..LookbackMonths}

\* the cells one run of the effect of useGoalTargetSum binds
GoalTargetSumBindings(month, ids) ==
    {[sheet |-> SheetForMonth(month), cell |-> "goal", category |-> c] : c \in ids}

\* the cells one run of the effect of useGoalFundingStatus binds
GoalFundingStatusBindings(month, ids) ==
    {[sheet |-> SheetForMonth(month), cell |-> "to-budget", category |-> "none"]}
    \cup {[sheet |-> f, cell |-> cell, category |-> c] :
              f \in FallbackMonths(month), cell \in {"goal", "long-goal"}, c \in ids}
    \cup {[sheet |-> SheetForMonth(month), cell |-> cell, category |-> c] :
              cell \in {"goal", "budgeted", "balance", "long-goal"}, c \in ids}

\* spreadsheet.bind for every cell of one run of the effect; nothing is bound
\* when no category is visible
EffectBindings(hook, run, spreadsheet, month, ids) ==
    IF ids = {} THEN {}
    ELSE {[run |-> run, spreadsheet |-> spreadsheet, sheet |-> b.sheet,
           cell |-> b.cell, category |-> b.category] :
              b \in IF hook = "useGoalTargetSum"
                    THEN GoalTargetSumBindings(month, ids)
                    ELSE GoalFundingStatusBindings(month, ids)}

\* a cleanup that forgets the bindings to the sheets of earlier months
EffectCleanupCurrentSheet(h) == {b \in h.unbinds : b.sheet = SheetForMonth(h.month)}

\* () => unbinds.forEach(unbind => unbind()): the bindings the cleanup removes
EffectCleanup(h) == h.unbinds

\* one run of the effect for new dependencies, after the cleanup of the run before
RunEffect(h, spreadsheet, month, ids) ==
    LET made == EffectBindings(h.hook, h.run + 1, spreadsheet, month, ids)
    IN  [h EXCEPT !.mounted = TRUE, !.spreadsheet = spreadsheet, !.month = month,
                  !.visibleCategoryIds = ids, !.run = @ + 1,
                  !.bound = (@ \ EffectCleanup(h)) \cup made,
                  !.unbinds = made,
                  !.values = IF ids = {} THEN {} ELSE @ \cap ids]

UiFrame ==
    UNCHANGED <<wall, syncingMode, clock, rows, messagesCrdt, messagesClock, prefs,
                applyQueue, applyRun, sync, lastApply, applied, issued, syncLog,
                tries, budget, view>>

\* the component mounts
HookMount ==
    /\ ~ui.mounted
    /\ ui.run < MaxRenders
    /\ ui' = RunEffect(ui, ui.spreadsheet, ui.month, ui.visibleCategoryIds)
    /\ UiFrame

\* a render with another month, category set or spreadsheet
HookRender(spreadsheet, month, ids) ==
    /\ ui.mounted
    /\ ui.run < MaxRenders
    /\ <<spreadsheet, month, ids>> # <<ui.spreadsheet, ui.month, ui.visibleCategoryIds>>
    /\ ui' = RunEffect(ui, spreadsheet, month, ids)
    /\ UiFrame

\* the component unmounts
HookUnmount ==
    /\ ui.mounted
    /\ ui' = [ui EXCEPT !.mounted = FALSE, !.bound = @ \ EffectCleanup(ui),
                        !.unbinds = {}]
    /\ UiFrame

\* the spreadsheet calls the callback of a binding: the value of the category
\* is put in the state of the hook
CellChanged(b) ==
    /\ b \in ui.bound
    /\ b.category # "none"
    /\ b.category \notin ui.values
    /\ ui' = [ui EXCEPT !.values = @ \cup {b.category}]
    /\ UiFrame

InitBindings ==
    /\ InitEngine
    /\ syncingMode = [r \in Replicas |-> "enabled"]
    /\ tries = NoTries
    /\ budget = NoBudget
    /\ view = NoView
    /\ \E hook \in SubscriptionHooks, spreadsheet \in Spreadsheets,
          month \in HookMonths, ids \in SUBSET Categories :
           ui = [hook |-> hook, mounted |-> FALSE, spreadsheet |-> spreadsheet,
                 month |-> month, visibleCategoryIds |-> ids, run |-> 0,
                 bound |-> {}, unbinds |-> {}, values |-> {}]

NextBindings ==
    \/ HookMount
    \/ \E spreadsheet \in Spreadsheets, month \in HookMonths,
          ids \in SUBSET Categories : HookRender(spreadsheet, month, ids)
    \/ HookUnmount
    \/ \E b \in ui.bound : CellChanged(b)

SpecBindings == InitBindings /\ [][NextBindings]_vars

\* C28: every binding the spreadsheet holds was made by the run of the effect
\* that is current, for the month, categories and spreadsheet of that run; a
\* hook that is unmounted holds none.
NoBindingOutlivesEffect ==
    \A b \in ui.bound :
        /\ ui.mounted
        /\ b.run = ui.run
        /\ b.spreadsheet = ui.spreadsheet
        /\ b.sheet \in {SheetForMonth(ui.month)} \cup FallbackMonths(ui.month)
        /\ b.category \in ui.visibleCategoryIds \cup {"none"}

\* useGoalFundingStatus has bindings of a third run of its effect, to sheets of
\* earlier months too, and a value has arrived
NoBindingOutlivesEffectWitness ==
    /\ ui.hook = "useGoalFundingStatus"
    /\ ui.mounted
    /\ ui.run = 3
    /\ \E b \in ui.bound : b.sheet # SheetForMonth(ui.month)
    /\ ui.values # {}

(***************************************************************************)
(* TargetAmountsProvider: the effect starts calculateAllTargetValues, which *)
(* awaits the queries of every month and then publishes; the cleanup of the *)
(* effect clears the flag mounted of its closure                            *)
(***************************************************************************)
\* nothing published: setTargetAmounts({}), totals of 0
NoTargetAmounts == [by |-> 0, results |-> {}]

\* a publication that does not look at the flag
MayPublishAlways(calc) == TRUE

\* line 184: if (mounted)
MayPublish(calc) == calc.mounted

\* lines 194-196: the cleanup of the run of the effect that started a calculation
ProviderCleanup(calcs, cleanup) ==
    {IF c.id = cleanup THEN [c EXCEPT !.mounted = FALSE] ELSE c : c \in calcs}

\* lines 50-197: one run of the effect, after the cleanup of the run before
ProviderEffect(p, months, showTargetAmounts) ==
    LET cleaned == [p EXCEPT !.mounted = TRUE, !.months = months,
                             !.showTargetAmounts = showTargetAmounts,
                             !.run = @ + 1,
                             !.calcs = ProviderCleanup(@, p.cleanup),
                             !.cleanup = 0]
    IN  IF months = {}
        THEN [cleaned EXCEPT !.targetAmounts = NoTargetAmounts, !.totals = 0]
        ELSE IF ~showTargetAmounts
        THEN [cleaned EXCEPT !.targetAmounts = NoTargetAmounts]
        ELSE [cleaned EXCEPT
                 !.calcs = @ \cup {[id |-> cleaned.run, months |-> months,
                                    mounted |-> TRUE, awaiting |-> months,
                                    results |-> {}]},
                 !.cleanup = cleaned.run]

\* the provider mounts
ProviderMount ==
    /\ ~ui.mounted
    /\ ui.run < MaxRenders
    /\ ui' = ProviderEffect(ui, ui.months, ui.showTargetAmounts)
    /\ UiFrame

\* a render with other months, or after the toggle
ProviderRender(months, showTargetAmounts) ==
    /\ ui.mounted
    /\ ui.run < MaxRenders
    /\ <<months, showTargetAmounts>> # <<ui.months, ui.showTargetAmounts>>
    /\ ui' = ProviderEffect(ui, months, showTargetAmounts)
    /\ UiFrame

\* the provider unmounts
ProviderUnmount ==
    /\ ui.mounted
    /\ ui' = [ui EXCEPT !.mounted = FALSE,
                        !.calcs = ProviderCleanup(@, ui.cleanup),
                        !.cleanup = 0]
    /\ UiFrame

\* lines 86-182: the queries of one month of a calculation return, or throw
MonthDone(calc, month, outcome) ==
    /\ calc \in ui.calcs
    /\ month \in calc.awaiting
    /\ ui' = [ui EXCEPT !.calcs = (@ \ {calc}) \cup
                  {[calc EXCEPT !.awaiting = @ \ {month},
                                !.results = @ \cup {<<month, outcome>>}]}]
    /\ UiFrame

\* lines 184-189: Promise.all has resolved
CalculationDone(calc) ==
    /\ calc \in ui.calcs
    /\ calc.awaiting = {}
    /\ ui' = IF MayPublish(calc)
             THEN [ui EXCEPT !.calcs = @ \ {calc},
                             !.targetAmounts = [by |-> calc.id, results |-> calc.results],
                             !.totals = calc.id,
                             !.last = [by |-> calc.id, run |-> ui.run,
                                       mounted |-> ui.mounted,
                                       months |-> calc.months,
                                       current |-> ui.months]]
             ELSE [ui EXCEPT !.calcs = @ \ {calc}, !.dropped = @ + 1]
    /\ UiFrame

InitTargets ==
    /\ InitEngine
    /\ syncingMode = [r \in Replicas |-> "enabled"]
    /\ tries = NoTries
    /\ budget = NoBudget
    /\ view = NoView
    /\ \E months \in SUBSET Months, showTargetAmounts \in BOOLEAN :
           ui = [hook |-> "TargetAmountsProvider", mounted |-> FALSE,
                 months |-> months, showTargetAmounts |-> showTargetAmounts,
                 run |-> 0, cleanup |-> 0, calcs |-> {},
                 targetAmounts |-> NoTargetAmounts, totals |-> 0, dropped |-> 0,
                 last |-> [by |-> 0, run |-> 0, mounted |-> TRUE, months |-> {},
                           current |-> {}]]

NextTargets ==
    \/ ProviderMount
    \/ \E months \in SUBSET Months, showTargetAmounts \in BOOLEAN :
           ProviderRender(months, showTargetAmounts)
    \/ ProviderUnmount
    \/ \E calc \in ui.calcs, month \in Months, outcome \in {"data", "error"} :
           MonthDone(calc, month, outcome)
    \/ \E calc \in ui.calcs : CalculationDone(calc)

SpecTargets == InitTargets /\ [][NextTargets]_vars

\* C29: a calculation that publishes targetAmounts and the totals is the one the
\* current run of the effect started, in a mounted provider, for the months of
\* that run; a calculation superseded by a change of months or of the toggle,
\* or by the unmount, publishes nothing.
OnlyCurrentCalculationPublishes ==
    /\ ui.last.by = ui.last.run
    /\ ui.last.mounted
    /\ ui.last.months = ui.last.current
    /\ \A calc \in ui.calcs : calc.mounted => calc.id = ui.run /\ ui.mounted

\* a superseded calculation has completed without publishing, and the one that
\* replaced it has published
OnlyCurrentCalculationWitness ==
    /\ ui.dropped >= 1
    /\ ui.last.by >= 2
    /\ ui.targetAmounts.by = ui.run

(***************************************************************************)
(* useTemplateAmounts(month, enabled): the effect answers from the cache of *)
(* the module or sends 'budget/get-template-amounts'; the amounts of a      *)
(* month are written as that month, "none" is null                          *)
(***************************************************************************)
\* lines 26-53: one run of the effect; it returns no cleanup
TemplateEffect(h, month, enabled) ==
    LET next == [h EXCEPT !.mounted = TRUE, !.month = month, !.enabled = enabled,
                         !.run = @ + 1]
    IN  IF ~enabled THEN [next EXCEPT !.amounts = "none"]
        ELSE IF month \in h.cache THEN [next EXCEPT !.amounts = month]
        ELSE [next EXCEPT !.isLoading = TRUE,
                          !.requests = @ \cup {[id |-> next.run, month |-> month]}]

\* the hook mounts
TemplateMount ==
    /\ ~ui.mounted
    /\ ui.run < MaxRenders
    /\ ui' = TemplateEffect([ui EXCEPT !.amounts = "none", !.isLoading = FALSE],
                            ui.month, ui.enabled)
    /\ UiFrame

\* a render with another month or another enabled
TemplateRender(month, enabled) ==
    /\ ui.mounted
    /\ ui.run < MaxRenders
    /\ <<month, enabled>> # <<ui.month, ui.enabled>>
    /\ ui' = TemplateEffect(ui, month, enabled)
    /\ UiFrame

\* the hook unmounts: its state is gone, its requests stay in flight
TemplateUnmount ==
    /\ ui.mounted
    /\ ui' = [ui EXCEPT !.mounted = FALSE]
    /\ UiFrame

\* lines 45-49: a request is answered; the setters of an unmounted hook do nothing
TemplateResponse(request) ==
    /\ request \in ui.requests
    /\ ui' = IF ui.mounted
             THEN [ui EXCEPT !.requests = @ \ {request},
                             !.cache = @ \cup {request.month},
                             !.amounts = request.month,
                             !.isLoading = FALSE,
                             !.last = [month |-> request.month, current |-> ui.month]]
             ELSE [ui EXCEPT !.requests = @ \ {request},
                             !.cache = @ \cup {request.month}]
    /\ UiFrame

\* lines 50-52: a request fails
TemplateFailure(request) ==
    /\ request \in ui.requests
    /\ ui' = [ui EXCEPT !.requests = @ \ {request},
                        !.isLoading = IF ui.mounted THEN FALSE ELSE @]
    /\ UiFrame

InitTemplateAmounts ==
    /\ InitEngine
    /\ syncingMode = [r \in Replicas |-> "enabled"]
    /\ tries = NoTries
    /\ budget = NoBudget
    /\ view = NoView
    /\ \E month \in Months, enabled \in BOOLEAN :
           ui = [hook |-> "useTemplateAmounts", mounted |-> FALSE, month |-> month,
                 enabled |-> enabled, run |-> 0, cache |-> {}, amounts |-> "none",
                 isLoading |-> FALSE, requests |-> {},
                 last |-> [month |-> "none", current |-> "none"]]

NextTemplateAmounts ==
    \/ TemplateMount
    \/ \E month \in Months, enabled \in BOOLEAN : TemplateRender(month, enabled)
    \/ TemplateUnmount
    \/ \E request \in ui.requests : TemplateResponse(request)
    \/ \E request \in ui.requests : TemplateFailure(request)

SpecTemplateAmounts == InitTemplateAmounts /\ [][NextTemplateAmounts]_vars

\* C30: the amounts the hook reports are those of its current month: a response
\* that sets the amounts is for the month the hook has at that time, so the late
\* response for an earlier month never becomes the amounts of the new month.
AmountsBelongToMonth ==
    /\ ui.last.month = ui.last.current
    /\ ui.mounted /\ ui.enabled /\ ui.requests = {} /\ ui.amounts # "none"
           => ui.amounts = ui.month

====
